---- MODULE Spec2Model ----
(***************************************************************************)
(* A model of src/auto_eda_fixed.py: the AutoEDA profiler.  One instance   *)
(* owns an output directory and a chart counter; analyze_dataset(df) runs  *)
(* twelve passes over a table, in a fixed order, and returns a report.     *)
(*                                                                         *)
(* A table is a sequence of columns; a column is a name (a sequence of     *)
(* characters), a dtype and a sequence of cells.  Numbers are integers;    *)
(* every quantity the code computes in floating point is kept as an exact  *)
(* rational (quartiles in quarters, IQR bounds in eighths, a correlation   *)
(* as the sign and the square of Pearson's r, a percentage as a pair       *)
(* numerator/denominator).  Skewness, kurtosis and the normality test are  *)
(* kept as the moment sums they are functions of; basic_info's byte-size   *)
(* estimate is not modelled.                                               *)
(***************************************************************************)
EXTENDS Integers, Sequences, FiniteSets, TLC

VARIABLES
    HAS_PLOTLY,      \* module flag, set once at import (lines 23-31)
    HAS_SCIPY,       \* module flag, set once at import (lines 33-38)
    chart_counter,   \* self.chart_counter
    files,           \* the chart files present under self.output_dir
    df,              \* the table the caller holds and passes to analyze_dataset
    report,          \* what the last analyze_dataset call on df returned or raised
    calls,           \* number of analyze_dataset calls made on the instance
    returned_total,  \* history: chart paths returned by all calls so far
    last_fails,      \* history: the charts that failed during the last call
    loaded,          \* history: the table as the caller loaded it
    previous         \* history: the non-chart sections the call before the last
                     \* returned on this table, if it returned

vars == <<HAS_PLOTLY, HAS_SCIPY, chart_counter, files, df, report, calls,
          returned_total, last_fails, loaded, previous>>

(***************************************************************************)
(* Bounds of the model.                                                    *)
(***************************************************************************)
MaxCalls == 2        \* analyze_dataset calls on one instance
MaxVal == 2          \* numeric cells of the outlier tables range over 0..MaxVal
OutlierRows == 5     \* rows of the outlier tables
MaxNumCols == 6      \* numeric columns of the correlation tables
MaxDay == 1          \* date cells of the time tables range over days 0..MaxDay
TimeRows == 2        \* rows of the time tables
MaxDistinct == 11    \* distinct values 1..k of the categorical tables, k up to this
CatRows == 3         \* further free cells of the categorical tables
DistRows == 4        \* rows of the distribution tables
MaxZeros == 11       \* zeros before the last value of the z-score tables

(***************************************************************************)
(* Program constants.                                                      *)
(***************************************************************************)
TopPairs == 10           \* corr_pairs[:10]
HeadRows == 5            \* df.head()
TopValues == 10          \* value_counts.head(10)
NamedCols == 3           \* missing_cols[:3], outlier_cols[:3], high_variance_cols[:3]
ZThreshold == 3          \* z_scores > 3

(***************************************************************************)
(* Cells.  k is the kind of value a cell holds: "na" (NaN / None / NaT),   *)
(* "num" (a number v), "text" (a string that is no timestamp, identified   *)
(* by v), "date" (a timestamp, or a string that parses as one: day v since *)
(* the epoch and f nanoseconds into that day) and "bool".                  *)
(***************************************************************************)
NA == [k |-> "na", v |-> 0, f |-> 0]
Num(n) == [k |-> "num", v |-> n, f |-> 0]
Txt(i) == [k |-> "text", v |-> i, f |-> 0]
Dat(d, t) == [k |-> "date", v |-> d, f |-> t]
Bool(b) == [k |-> "bool", v |-> b, f |-> 0]

\* a column; cats is the list of categories of a column of dtype category
\* (every value of the column is one of them) and is empty otherwise
CatCol(n, cs, vs) == [name |-> n, dtype |-> "category", vals |-> vs, cats |-> cs]

Col(n, t, vs) == [name |-> n, dtype |-> t, vals |-> vs, cats |-> <<>>]

\* isnull() of one cell
IsNull(c) == c.k = "na"

(***************************************************************************)
(* Generic helpers on sequences.                                           *)
(***************************************************************************)
Range(s) == {s[i] : i \in DOMAIN s}

Min2(a, b) == IF a <= b THEN a ELSE b

\* s[:n]
Take(s, n) == SubSeq(s, 1, Min2(n, Len(s)))

\* [s[i] for i in 1..Len(s) if P(s[i])], in order
RECURSIVE SelectIdx(_, _, _)
SelectIdx(s, keep, i) ==
    IF i > Len(s) THEN <<>>
    ELSE (IF i \in keep THEN <<s[i]>> ELSE <<>>) \o SelectIdx(s, keep, i + 1)

RECURSIVE SumSeq(_)
SumSeq(s) == IF s = <<>> THEN 0 ELSE s[1] + SumSeq(Tail(s))

\* insertion of x into an ascending sequence
RECURSIVE InsertAsc(_, _)
InsertAsc(x, s) ==
    IF s = <<>> THEN <<x>>
    ELSE IF x < s[1] THEN <<x>> \o s
    ELSE <<s[1]>> \o InsertAsc(x, Tail(s))

RECURSIVE SortAsc(_)
SortAsc(s) == IF s = <<>> THEN <<>> ELSE InsertAsc(s[1], SortAsc(Tail(s)))

Abs(x) == IF x < 0 THEN -x ELSE x

(***************************************************************************)
(* Column names: str.lower() and the substring test of line 301.           *)
(***************************************************************************)
LowerChar(c) ==
    CASE c = "D" -> "d" [] c = "A" -> "a" [] c = "T" -> "t" [] c = "E" -> "e"
      [] c = "I" -> "i" [] c = "M" -> "m" [] OTHER -> c

Lower(name) == [i \in DOMAIN name |-> LowerChar(name[i])]

\* pat in name
Contains(name, pat) ==
    \E i \in 0..(Len(name) - Len(pat)) :
        \A j \in 1..Len(pat) : name[i + j] = pat[j]

StrTime == <<"t", "i", "m", "e">>
StrDate == <<"d", "a", "t", "e">>

(***************************************************************************)
(* select_dtypes and the column views every pass recomputes.               *)
(***************************************************************************)
NRows(d) == IF Len(d) = 0 THEN 0 ELSE Len(d[1].vals)

IsNumeric(c) == c.dtype \in {"int64", "float64"}
IsCategorical(c) == c.dtype \in {"object", "category"}
IsDatetime(c) == c.dtype = "datetime64[ns]"

NumericIdx(d) == {i \in DOMAIN d : IsNumeric(d[i])}
NumericCols(d) == SelectIdx(d, NumericIdx(d), 1)
CategoricalCols(d) == SelectIdx(d, {i \in DOMAIN d : IsCategorical(d[i])}, 1)
DatetimeCols(d) == SelectIdx(d, {i \in DOMAIN d : IsDatetime(d[i])}, 1)

NamesOf(cols) == [i \in DOMAIN cols |-> cols[i].name]

\* Series.dropna() of a numeric column, as plain integers
NonNull(c) == SelectIdx([i \in DOMAIN c.vals |-> c.vals[i].v],
                        {i \in DOMAIN c.vals : ~IsNull(c.vals[i])}, 1)

MissingIn(c) == Cardinality({i \in DOMAIN c.vals : IsNull(c.vals[i])})

(***************************************************************************)
(* Floating-point results.  NaN is a value of its own; a finite result is  *)
(* the exact rational num/den (den > 0), or an integer count of units.     *)
(***************************************************************************)
NaN == [nan |-> TRUE, num |-> 0, den |-> 1]
Rat(a, b) == [nan |-> FALSE, num |-> a, den |-> b]

\* a / b on Python ints is defined for b # 0 only: ZeroDivisionError otherwise
PyDivRaises(a, b) == b = 0

\* a / b on numpy values: 0/0 is NaN, no exception
NpDiv(a, b) == IF b = 0 THEN NaN ELSE Rat(a, b)

(***************************************************************************)
(* Series.quantile(k/4) with linear interpolation over the non-null        *)
(* values, in quarters of a unit; NaN for a column with no value.          *)
(***************************************************************************)
QuantileX4(c, k) ==
    LET s == SortAsc(NonNull(c))
        n == Len(s)
        pos == k * (n - 1)
        i == pos \div 4
        r == pos % 4
    IN  IF n = 0 THEN NaN
        ELSE IF r = 0 THEN Rat(4 * s[i + 1], 4)
        ELSE Rat(4 * s[i + 1] + r * (s[i + 2] - s[i + 1]), 4)

(***************************************************************************)
(* Moment sums of the non-null values x of a column: n, S = sum x, and     *)
(* M_k = sum (n*x - S)^k.  mean = S/n, var(ddof=1) = M2 / (n*n*(n-1)),     *)
(* skewness and kurtosis are functions of n, M2, M3, M4.                   *)
(***************************************************************************)
Moments(c) ==
    LET x == NonNull(c)
        n == Len(x)
        S == SumSeq(x)
        dev == [i \in DOMAIN x |-> n * x[i] - S]
    IN  [n |-> n, S |-> S,
         M2 |-> SumSeq([i \in DOMAIN x |-> dev[i] * dev[i]]),
         M3 |-> SumSeq([i \in DOMAIN x |-> dev[i] * dev[i] * dev[i]]),
         M4 |-> SumSeq([i \in DOMAIN x |-> dev[i] * dev[i] * dev[i] * dev[i]])]

Mean(c) == LET m == Moments(c) IN NpDiv(m.S, m.n)

\* Series.var() / the square of Series.std(): NaN below two values
Variance(c) ==
    LET m == Moments(c) IN IF m.n < 2 THEN NaN ELSE Rat(m.M2, m.n * m.n * (m.n - 1))

SeqMin(s) == CHOOSE x \in Range(s) : \A y \in Range(s) : x <= y
SeqMax(s) == CHOOSE x \in Range(s) : \A y \in Range(s) : x >= y

ColMin(c) == IF NonNull(c) = <<>> THEN NaN ELSE Rat(SeqMin(NonNull(c)), 1)
ColMax(c) == IF NonNull(c) = <<>> THEN NaN ELSE Rat(SeqMax(NonNull(c)), 1)

\* Series.nunique()
NUnique(c) == Cardinality(Range(NonNull(c)))

Occurrences(s, x) == Cardinality({i \in DOMAIN s : s[i] = x})

(***************************************************************************)
(* _get_basic_info (memory_usage_mb left out).                             *)
(***************************************************************************)
GetBasicInfo(d) ==
    [shape |-> <<NRows(d), Len(d)>>,
     columns |-> NamesOf(d),
     dtypes |-> [i \in DOMAIN d |-> d[i].dtype],
     sample_data |-> [r \in 1..Min2(HeadRows, NRows(d)) |-> [i \in DOMAIN d |-> d[i].vals[r]]]]

(***************************************************************************)
(* _get_descriptive_stats.                                                 *)
(***************************************************************************)
Describe(c) ==
    [count |-> Len(NonNull(c)), mean |-> Mean(c), std2 |-> Variance(c),
     min |-> ColMin(c), q25 |-> QuantileX4(c, 1), q50 |-> QuantileX4(c, 2),
     q75 |-> QuantileX4(c, 3), max |-> ColMax(c)]

NoNumericMessage == [message |-> "Nenhuma coluna numerica encontrada"]

GetDescriptiveStats(d) ==
    LET cols == NumericCols(d)
        names == Range(NamesOf(cols))
        byName(nm) == CHOOSE i \in DOMAIN cols : cols[i].name = nm
    IN  IF Len(cols) = 0 THEN NoNumericMessage
        ELSE [numeric_summary |-> [nm \in names |-> Describe(cols[byName(nm)])],
              skewness |-> [nm \in names |-> Moments(cols[byName(nm)])],
              kurtosis |-> [nm \in names |-> Moments(cols[byName(nm)])],
              variance |-> [nm \in names |-> Variance(cols[byName(nm)])]]

(***************************************************************************)
(* _analyze_missing_values.                                                *)
(***************************************************************************)
AnalyzeMissingValues(d) ==
    LET names == Range(NamesOf(d))
        byName(nm) == CHOOSE i \in DOMAIN d : d[i].name = nm
        missing_count == [nm \in names |-> MissingIn(d[byName(nm)])]
    IN  [missing_count |-> missing_count,
         missing_percent |-> [nm \in names |-> NpDiv(100 * missing_count[nm], NRows(d))],
         total_missing |-> SumSeq([i \in DOMAIN d |-> MissingIn(d[i])]),
         columns_with_missing |->
             NamesOf(SelectIdx(d, {i \in DOMAIN d : MissingIn(d[i]) > 0}, 1))]

(***************************************************************************)
(* _analyze_data_types.                                                    *)
(***************************************************************************)
AnalyzeDataTypes(d) ==
    [numeric_columns |-> NamesOf(NumericCols(d)),
     categorical_columns |-> NamesOf(CategoricalCols(d)),
     datetime_columns |-> NamesOf(DatetimeCols(d)),
     numeric_count |-> Len(NumericCols(d)),
     categorical_count |-> Len(CategoricalCols(d)),
     datetime_count |-> Len(DatetimeCols(d))]

(***************************************************************************)
(* DataFrame.corr(): Pearson's r of two columns over the rows where both   *)
(* hold a value.  With n such rows, cov = n*Sxy - Sx*Sy, vx = n*Sxx - Sx^2 *)
(* and vy alike, r = cov / sqrt(vx*vy); r is NaN when vx*vy = 0 (a         *)
(* constant column, or fewer than two common rows).  r is kept as          *)
(* num/den = sign(cov) * cov^2 / (vx*vy), the signed square of r.          *)
(***************************************************************************)
Corr(a, b) ==
    LET I == {i \in DOMAIN a.vals : ~IsNull(a.vals[i]) /\ ~IsNull(b.vals[i])}
        x == SelectIdx([i \in DOMAIN a.vals |-> a.vals[i].v], I, 1)
        y == SelectIdx([i \in DOMAIN b.vals |-> b.vals[i].v], I, 1)
        n == Len(x)
        Sx == SumSeq(x)
        Sy == SumSeq(y)
        cov == n * SumSeq([i \in DOMAIN x |-> x[i] * y[i]]) - Sx * Sy
        vx == n * SumSeq([i \in DOMAIN x |-> x[i] * x[i]]) - Sx * Sx
        vy == n * SumSeq([i \in DOMAIN y |-> y[i] * y[i]]) - Sy * Sy
    IN  IF vx * vy = 0 THEN NaN
        ELSE Rat((IF cov < 0 THEN -1 ELSE 1) * cov * cov, vx * vy)

\* abs(r) > p/q and abs(r) >= p/q on a correlation r; False on NaN
AbsGreater(r, p, q) == ~r.nan /\ Abs(r.num) * q * q > p * p * r.den
AbsAtLeast(r, p, q) == ~r.nan /\ Abs(r.num) * q * q >= p * p * r.den

\* abs(r1) > abs(r2), both finite
AbsLess(r2, r1) == Abs(r1.num) * r2.den > Abs(r2.num) * r1.den

(***************************************************************************)
(* _correlation_strength, on the absolute value of r.                      *)
(***************************************************************************)
CorrelationStrength(r) ==
    IF AbsAtLeast(r, 7, 10) THEN "Muito Forte"
    ELSE IF AbsAtLeast(r, 5, 10) THEN "Forte"
    ELSE IF AbsAtLeast(r, 3, 10) THEN "Moderada"
    ELSE IF AbsAtLeast(r, 1, 10) THEN "Fraca"
    ELSE "Muito Fraca"

\* line 149: only the significant pairs are kept
IsSignificant(r) == AbsGreater(r, 1, 10)

\* the loops of lines 145-155: pairs i < j in row-major order
RECURSIVE CorrPairsFrom(_, _, _)
CorrPairsFrom(cols, i, j) ==
    IF i > Len(cols) THEN <<>>
    ELSE IF j > Len(cols) THEN CorrPairsFrom(cols, i + 1, i + 2)
    ELSE LET r == Corr(cols[i], cols[j])
         IN  (IF IsSignificant(r)
              THEN <<[var1 |-> cols[i].name, var2 |-> cols[j].name,
                      correlation |-> r, strength |-> CorrelationStrength(r)]>>
              ELSE <<>>) \o CorrPairsFrom(cols, i, j + 1)

\* mutant of InsertDesc: the sort without reverse=True, ascending
RECURSIVE InsertDesc_Ascending(_, _)
InsertDesc_Ascending(x, s) ==
    IF s = <<>> THEN <<x>>
    ELSE IF AbsLess(x.correlation, s[1].correlation) THEN <<x>> \o s
    ELSE <<s[1]>> \o InsertDesc_Ascending(x, Tail(s))

\* list.sort(key=abs(correlation), reverse=True): stable, descending
RECURSIVE InsertDesc(_, _)
InsertDesc(x, s) ==
    IF s = <<>> THEN <<x>>
    ELSE IF AbsLess(s[1].correlation, x.correlation) THEN <<x>> \o s
    ELSE <<s[1]>> \o InsertDesc(x, Tail(s))

RECURSIVE SortPairs(_)
SortPairs(s) ==
    IF s = <<>> THEN <<>>
    ELSE InsertDesc(s[Len(s)], SortPairs(SubSeq(s, 1, Len(s) - 1)))

\* max(corr_pairs, key=abs(correlation)): the first element no other exceeds
PyMax(s) ==
    LET i == CHOOSE k \in DOMAIN s :
                 /\ \A j \in DOMAIN s : ~AbsLess(s[k].correlation, s[j].correlation)
                 /\ \A j \in 1..(k - 1) : AbsLess(s[j].correlation, s[k].correlation)
    IN  s[i]

NoPair == [var1 |-> <<>>, var2 |-> <<>>, correlation |-> NaN, strength |-> "None"]

FewNumericMessage == [message |-> "Insuficientes colunas numericas para correlacao"]

CorrMatrix(cols) ==
    [pr \in Range(NamesOf(cols)) \X Range(NamesOf(cols)) |->
        LET i == CHOOSE k \in DOMAIN cols : cols[k].name = pr[1]
            j == CHOOSE k \in DOMAIN cols : cols[k].name = pr[2]
        IN  Corr(cols[i], cols[j])]

\* mutant of TooFewForCorrelation: the guard off by one
TooFewForCorrelation_OffByOne(cols) == Len(cols) < 1

\* line 138
TooFewForCorrelation(cols) == Len(cols) < 2

AnalyzeCorrelations(d) ==
    LET cols == NumericCols(d)
        corr_pairs == SortPairs(CorrPairsFrom(cols, 1, 2))
    IN  IF TooFewForCorrelation(cols) THEN FewNumericMessage
        ELSE [correlation_matrix |-> CorrMatrix(cols),
              strong_correlations |-> Take(corr_pairs, TopPairs),
              highest_correlation |->
                  IF corr_pairs # <<>> THEN PyMax(corr_pairs) ELSE NoPair]

(***************************************************************************)
(* _detect_outliers.  Bounds are kept in eighths of a unit.                *)
(***************************************************************************)
LowerBound(c) ==
    LET Q1 == QuantileX4(c, 1)
        Q3 == QuantileX4(c, 3)
    IN  IF Q1.nan THEN NaN ELSE Rat(2 * Q1.num - 3 * (Q3.num - Q1.num), 8)

UpperBound(c) ==
    LET Q1 == QuantileX4(c, 1)
        Q3 == QuantileX4(c, 3)
    IN  IF Q1.nan THEN NaN ELSE Rat(2 * Q3.num + 3 * (Q3.num - Q1.num), 8)

\* mutant of IqrOutlierRows: the comparisons of line 192 not strict
IqrOutlierRows_NotStrict(c) ==
    LET lo == LowerBound(c)
        hi == UpperBound(c)
    IN  {i \in DOMAIN c.vals :
            /\ ~IsNull(c.vals[i])
            /\ ~lo.nan
            /\ (8 * c.vals[i].v <= lo.num \/ 8 * c.vals[i].v >= hi.num)}

\* the rows of df[(df[col] < lower_bound) | (df[col] > upper_bound)]
IqrOutlierRows(c) ==
    LET lo == LowerBound(c)
        hi == UpperBound(c)
    IN  {i \in DOMAIN c.vals :
            /\ ~IsNull(c.vals[i])
            /\ ~lo.nan
            /\ (8 * c.vals[i].v < lo.num \/ 8 * c.vals[i].v > hi.num)}

\* np.abs(stats.zscore(df[col].dropna())) > 3, on the non-null values:
\* z = (x - mean) / std(ddof=0), so |z| > 3 iff n * (n*x - S)^2 > 9 * M2
ZOutlierCount(c) ==
    LET x == NonNull(c)
        m == Moments(c)
    IN  Cardinality({i \in DOMAIN x :
            (m.n * x[i] - m.S) * (m.n * x[i] - m.S) * m.n > ZThreshold * ZThreshold * m.M2})

\* lines 202-219: df[z_scores > 3] raises when the mask, taken over the
\* non-null values, is shorter than the frame; the except reports 0
ZOutliers(c, scipy) ==
    IF ~scipy THEN 0
    ELSE IF MissingIn(c) > 0 THEN 0
    ELSE ZOutlierCount(c)

OutlierInfo(c, n, scipy) ==
    [iqr_outliers_count |-> Cardinality(IqrOutlierRows(c)),
     iqr_outliers_percent |-> Rat(100 * Cardinality(IqrOutlierRows(c)), n),
     lower_bound |-> LowerBound(c),
     upper_bound |-> UpperBound(c),
     z_outliers_count |-> ZOutliers(c, scipy),
     z_outliers_percent |-> Rat(100 * ZOutliers(c, scipy), n)]

\* line 196: len(iqr_outliers) / len(df) on Python ints
DetectOutliersRaises(d) == Len(NumericCols(d)) > 0 /\ PyDivRaises(0, NRows(d))

DetectOutliers(d, scipy) ==
    LET cols == NumericCols(d)
    IN  [nm \in Range(NamesOf(cols)) |->
            OutlierInfo(cols[CHOOSE i \in DOMAIN cols : cols[i].name = nm], NRows(d), scipy)]

(***************************************************************************)
(* _analyze_distributions.                                                 *)
(***************************************************************************)
NoneVal == [none |-> TRUE, v |-> 0]
Some(x) == [none |-> FALSE, v |-> x]

\* data.mode().iloc[0]: the smallest of the most frequent values
Mode(c) ==
    LET x == NonNull(c)
    IN  IF x = <<>> THEN NoneVal
        ELSE Some(CHOOSE m \in Range(x) :
                    /\ \A y \in Range(x) : Occurrences(x, y) <= Occurrences(x, m)
                    /\ \A y \in Range(x) :
                          Occurrences(x, y) = Occurrences(x, m) => m <= y)

\* stats.normaltest(data): a function of the data, kept as its moments;
\* None without scipy
Normality(c, scipy) == IF scipy THEN Some(Moments(c)) ELSE NoneVal

DistInfo(c, scipy) ==
    LET lo == ColMin(c)
        hi == ColMax(c)
    IN  [mean |-> Mean(c), median |-> QuantileX4(c, 2), mode |-> Mode(c),
         std2 |-> Variance(c), min |-> lo, max |-> hi,
         range |-> IF lo.nan THEN NaN ELSE Rat(hi.num - lo.num, 1),
         skewness |-> Moments(c), kurtosis |-> Moments(c),
         unique_values |-> NUnique(c),
         unique_percent |-> Rat(100 * NUnique(c), Len(NonNull(c))),
         is_normal |-> Normality(c, scipy),
         normality_p_value |-> Normality(c, scipy)]

\* line 244: data.nunique() / len(data) on Python ints
AnalyzeDistributionsRaises(d) ==
    \E i \in NumericIdx(d) : PyDivRaises(NUnique(d[i]), Len(NonNull(d[i])))

AnalyzeDistributions(d, scipy) ==
    LET cols == NumericCols(d)
    IN  [nm \in Range(NamesOf(cols)) |->
            DistInfo(cols[CHOOSE i \in DOMAIN cols : cols[i].name = nm], scipy)]

(***************************************************************************)
(* _analyze_categorical.  value_counts(): the distinct non-null values     *)
(* with their counts, by falling count; equal counts keep the order of     *)
(* first appearance.  On a column of dtype category the table has one      *)
(* entry for every category, a category no row holds with the count 0.     *)
(***************************************************************************)
RECURSIVE InsertCount(_, _)
InsertCount(x, s) ==
    IF s = <<>> THEN <<x>>
    ELSE IF x.count > s[1].count THEN <<x>> \o s
    ELSE <<s[1]>> \o InsertCount(x, Tail(s))

RECURSIVE CountsFrom(_, _, _)
CountsFrom(vals, i, acc) ==
    IF i = 0 THEN acc
    ELSE LET c == vals[i]
             first == \A j \in 1..(i - 1) : vals[j] # c
             rest == CountsFrom(vals, i - 1, acc)
         IN  IF IsNull(c) \/ ~first THEN rest
             ELSE InsertCount([value |-> c, count |-> Occurrences(vals, c)], rest)

\* the counts of the categories cats[1..i], by falling count
RECURSIVE CategoryCounts(_, _, _)
CategoryCounts(vals, cats, i) ==
    IF i = 0 THEN <<>>
    ELSE InsertCount([value |-> cats[i], count |-> Occurrences(vals, cats[i])],
                     CategoryCounts(vals, cats, i - 1))

ValueCounts(c) ==
    IF c.dtype = "category" THEN CategoryCounts(c.vals, c.cats, Len(c.cats))
    ELSE CountsFrom(c.vals, Len(c.vals), <<>>)

\* df[col].nunique() of a text column: the distinct values some row holds
NUniqueCells(c) == Cardinality({c.vals[i] : i \in {j \in DOMAIN c.vals : ~IsNull(c.vals[j])}})

CategoricalInfo(c) ==
    LET value_counts == ValueCounts(c)
        n == Len(value_counts)
    IN  [unique_count |-> NUniqueCells(c),
         most_frequent |-> IF n > 0 THEN Some(value_counts[1].value) ELSE NoneVal,
         most_frequent_count |-> IF n > 0 THEN value_counts[1].count ELSE 0,
         least_frequent |-> IF n > 0 THEN Some(value_counts[n].value) ELSE NoneVal,
         least_frequent_count |-> IF n > 0 THEN value_counts[n].count ELSE 0,
         value_counts |-> Take(value_counts, TopValues),
         missing_count |-> MissingIn(c)]

AnalyzeCategorical(d) ==
    LET cols == CategoricalCols(d)
    IN  [nm \in Range(NamesOf(cols)) |->
            CategoricalInfo(cols[CHOOSE i \in DOMAIN cols : cols[i].name = nm])]

(***************************************************************************)
(* _analyze_time_patterns.  A timestamp is a day d since the epoch and f   *)
(* nanoseconds into that day; NaT is a value of its own.                   *)
(***************************************************************************)
NaT == [nat |-> TRUE, d |-> 0, f |-> 0]
Stamp(dd, ff) == [nat |-> FALSE, d |-> dd, f |-> ff]

\* pd.to_datetime(value, errors='coerce') of one cell: a date string or a
\* timestamp is itself, a number n (0 <= n, below one day) is n nanoseconds
\* after the epoch, any other string and an absent value are NaT
ToDatetime(c) ==
    CASE c.k = "date" -> Stamp(c.v, c.f)
      [] c.k = "num" -> Stamp(0, c.v)
      [] OTHER -> NaT

\* pd.to_datetime refuses a bool column with a TypeError, whatever `errors`
ToDatetimeRaises(c) == c.dtype = "bool"

StampLE(a, b) == a.d < b.d \/ (a.d = b.d /\ a.f <= b.f)

\* (max - min).days: Timedelta.days is the floor of the difference in days
DaysBetween(lo, hi) == IF hi.f >= lo.f THEN hi.d - lo.d ELSE hi.d - lo.d - 1

\* line 301
IsTimeName(name) == Contains(Lower(name), StrTime) \/ Contains(Lower(name), StrDate)

\* lines 293-302: the declared datetime columns, then the columns named so
TimeCols(d) ==
    NamesOf(DatetimeCols(d))
        \o NamesOf(SelectIdx(d, {i \in DOMAIN d : IsTimeName(d[i].name)}, 1))

\* lines 310-313
TimeData(c) ==
    IF c.dtype # "datetime64[ns]" THEN [i \in DOMAIN c.vals |-> ToDatetime(c.vals[i])]
    ELSE [i \in DOMAIN c.vals |-> IF IsNull(c.vals[i]) THEN NaT
                                  ELSE Stamp(c.vals[i].v, c.vals[i].f)]

TimeInfo(c) ==
    LET time_data == TimeData(c)
        valid == {time_data[i] : i \in {j \in DOMAIN time_data : ~time_data[j].nat}}
        lo == CHOOSE a \in valid : \A b \in valid : StampLE(a, b)
        hi == CHOOSE a \in valid : \A b \in valid : StampLE(b, a)
    IN  [min_date |-> lo, max_date |-> hi,
         date_range_days |-> DaysBetween(lo, hi),
         missing_dates |-> Cardinality({i \in DOMAIN time_data : time_data[i].nat})]

\* line 315: time_data.notna().sum() > 0, reached only if the conversion
\* did not raise (lines 308, 322-323)
TimeColumnKept(c) ==
    /\ ~(c.dtype # "datetime64[ns]" /\ ToDatetimeRaises(c))
    /\ \E i \in DOMAIN c.vals : ~TimeData(c)[i].nat

\* mutant of TimeLoop: the try around the whole loop, so that a column whose
\* conversion raises ends it
RECURSIVE TimeLoop_StopOnRaise(_, _, _, _)
TimeLoop_StopOnRaise(d, time_cols, i, acc) ==
    IF i > Len(time_cols) THEN acc
    ELSE LET nm == time_cols[i]
             c == d[CHOOSE k \in DOMAIN d : d[k].name = nm]
         IN  IF c.dtype # "datetime64[ns]" /\ ToDatetimeRaises(c) THEN acc
             ELSE IF TimeColumnKept(c)
             THEN TimeLoop_StopOnRaise(d, time_cols, i + 1,
                      [x \in DOMAIN acc \cup {nm} |-> IF x = nm THEN TimeInfo(c) ELSE acc[x]])
             ELSE TimeLoop_StopOnRaise(d, time_cols, i + 1, acc)

\* the loop of lines 306-323 over time_cols[i..], filling the dict acc
RECURSIVE TimeLoop(_, _, _, _)
TimeLoop(d, time_cols, i, acc) ==
    IF i > Len(time_cols) THEN acc
    ELSE LET nm == time_cols[i]
             c == d[CHOOSE k \in DOMAIN d : d[k].name = nm]
         IN  IF TimeColumnKept(c)
             THEN TimeLoop(d, time_cols, i + 1,
                      [x \in DOMAIN acc \cup {nm} |-> IF x = nm THEN TimeInfo(c) ELSE acc[x]])
             ELSE TimeLoop(d, time_cols, i + 1, acc)

EmptyDict == [x \in {} |-> NaT]

AnalyzeTimePatterns(d) == TimeLoop(d, TimeCols(d), 1, EmptyDict)

(***************************************************************************)
(* Chart generation.  inst is the instance state a chart method touches:   *)
(* chart_counter and the files under output_dir.  fails is the set of      *)
(* charts whose construction or write_html raises during this call; a      *)
(* failed write is taken to leave no file.                                 *)
(***************************************************************************)
ChartKinds == <<"correlation_heatmap", "distributions", "boxplots",
                "missing_values", "categorical_distribution">>

\* the early returns of each _create_* method (lines 373, 402, 444, 486, 513)
ChartPrecondition(kind, d) ==
    CASE kind = "correlation_heatmap" -> Len(NumericCols(d)) >= 2
      [] kind = "distributions" -> Len(NumericCols(d)) > 0
      [] kind = "boxplots" -> Len(NumericCols(d)) > 0
      [] kind = "missing_values" -> SumSeq([i \in DOMAIN d |-> MissingIn(d[i])]) # 0
      [] kind = "categorical_distribution" -> Len(CategoricalCols(d)) > 0

\* mutant of CreateChart: the counter incremented before the chart is built
CreateChart_CountsFirst(kind, d, plotly, fails, inst) ==
    IF ~plotly THEN [path |-> NoneVal, inst |-> inst]
    ELSE IF ~ChartPrecondition(kind, d) THEN [path |-> NoneVal, inst |-> inst]
    ELSE IF kind \in fails
    THEN [path |-> NoneVal, inst |-> [inst EXCEPT !.chart_counter = @ + 1]]
    ELSE [path |-> [none |-> FALSE, v |-> kind],
          inst |-> [chart_counter |-> inst.chart_counter + 1,
                    files |-> inst.files \cup {kind}]]

\* one _create_* method: the path it returns (None: no path) and the
\* instance state it leaves
CreateChart(kind, d, plotly, fails, inst) ==
    IF ~plotly THEN [path |-> NoneVal, inst |-> inst]
    ELSE IF ~ChartPrecondition(kind, d) THEN [path |-> NoneVal, inst |-> inst]
    ELSE IF kind \in fails THEN [path |-> NoneVal, inst |-> inst]
    ELSE [path |-> [none |-> FALSE, v |-> kind],
          inst |-> [chart_counter |-> inst.chart_counter + 1,
                    files |-> inst.files \cup {kind}]]

\* mutant of ChartSteps: a failing chart ends chart generation (only the
\* try of lines 335-362 catches it)
RECURSIVE ChartSteps_AbortOnFailure(_, _, _, _, _)
ChartSteps_AbortOnFailure(i, d, fails, paths, inst) ==
    IF i > Len(ChartKinds) THEN [chart_paths |-> paths, inst |-> inst]
    ELSE IF ChartPrecondition(ChartKinds[i], d) /\ ChartKinds[i] \in fails
    THEN [chart_paths |-> paths, inst |-> inst]
    ELSE LET r == CreateChart(ChartKinds[i], d, TRUE, fails, inst)
         IN  ChartSteps_AbortOnFailure(i + 1, d, fails,
                 IF r.path.none THEN paths ELSE Append(paths, r.path.v), r.inst)

\* lines 335-359: each chart in turn, its path appended when there is one
RECURSIVE ChartSteps(_, _, _, _, _)
ChartSteps(i, d, fails, paths, inst) ==
    IF i > Len(ChartKinds) THEN [chart_paths |-> paths, inst |-> inst]
    ELSE LET r == CreateChart(ChartKinds[i], d, TRUE, fails, inst)
         IN  ChartSteps(i + 1, d, fails,
                        IF r.path.none THEN paths ELSE Append(paths, r.path.v), r.inst)

GenerateCharts(d, plotly, fails, inst) ==
    IF ~plotly THEN [chart_paths |-> <<>>, inst |-> inst]
    ELSE ChartSteps(1, d, fails, <<>>, inst)

(***************************************************************************)
(* _generate_insights.                                                     *)
(***************************************************************************)
\* f"{x:.1f}" of the float a / b: tenths, rounded half to even
Tenths(a, b) ==
    LET q == (10 * a) \div b
        r == (10 * a) % b
    IN  IF 2 * r < b THEN q
        ELSE IF 2 * r > b THEN q + 1
        ELSE IF q % 2 = 0 THEN q ELSE q + 1

\* mutant of TotalMissing: the absent values of the numeric columns only
TotalMissing_NumericOnly(d) == SumSeq([i \in DOMAIN d |-> IF IsNumeric(d[i]) THEN MissingIn(d[i]) ELSE 0])

\* line 545: df.isnull().sum().sum()
TotalMissing(d) == SumSeq([i \in DOMAIN d |-> MissingIn(d[i])])

Row(d, r) == [i \in DOMAIN d |-> d[i].vals[r]]

\* df.duplicated().sum(): rows equal to an earlier row
Duplicates(d) ==
    Cardinality({r \in 1..NRows(d) : \E q \in 1..(r - 1) : Row(d, q) = Row(d, r)})

\* lines 569-570: cv = std / mean (0 when the mean is 0), cv > 1.  With
\* var = M2 / (n*n*(n-1)) and mean = S / n: std > mean > 0.
HighVariance(c) ==
    LET m == Moments(c)
    IN  m.n >= 2 /\ m.S > 0 /\ m.M2 > (m.n - 1) * m.S * m.S

GenerateInsights(d) ==
    LET high_variance_cols ==
            NamesOf(SelectIdx(d, {i \in NumericIdx(d) : HighVariance(d[i])}, 1))
    IN  <<[kind |-> "size", rows |-> NRows(d), cols |-> Len(d)]>>
        \o (IF TotalMissing(d) = 0
            THEN <<[kind |-> "no_missing"]>>
            ELSE <<[kind |-> "missing", total |-> TotalMissing(d),
                    percent_tenths |-> Tenths(100 * TotalMissing(d), NRows(d) * Len(d))]>>)
        \o <<[kind |-> "types", numeric |-> Len(NumericCols(d)),
              categorical |-> Len(CategoricalCols(d))]>>
        \o (IF Duplicates(d) > 0
            THEN <<[kind |-> "duplicates", count |-> Duplicates(d)]>>
            ELSE <<[kind |-> "no_duplicates"]>>)
        \o (IF high_variance_cols # <<>>
            THEN <<[kind |-> "high_variance", cols |-> Take(high_variance_cols, NamedCols)]>>
            ELSE <<>>)

(***************************************************************************)
(* _generate_recommendations.                                              *)
(***************************************************************************)
\* line 595: len(outliers) > len(df) * 0.05
ManyOutliers(c, n) == 20 * Cardinality(IqrOutlierRows(c)) > n

\* mutant of HighCorrPairs: the comparison of line 607 not strict
HighCorrPairs_AtLeast(cols) ==
    {pr \in (DOMAIN cols) \X (DOMAIN cols) :
        pr[1] < pr[2] /\ AbsAtLeast(Corr(cols[pr[1]], cols[pr[2]]), 8, 10)}

\* lines 602-608: some pair i < j of numeric columns with abs(r) > 0.8
HighCorrPairs(cols) ==
    {pr \in (DOMAIN cols) \X (DOMAIN cols) :
        pr[1] < pr[2] /\ AbsGreater(Corr(cols[pr[1]], cols[pr[2]]), 8, 10)}

\* lines 614-620: a numeric column of two distinct values whose rarer value
\* has less than a tenth of the count of the other
Imbalanced(c) ==
    /\ IsNumeric(c)
    /\ NUnique(c) = 2
    /\ LET x == NonNull(c)
           a == SeqMin(x)
           b == SeqMax(x)
           na == Occurrences(x, a)
           nb == Occurrences(x, b)
       IN  10 * Min2(na, nb) < na + nb - Min2(na, nb)

GenerateRecommendations(d) ==
    LET missing_cols == NamesOf(SelectIdx(d, {i \in DOMAIN d : MissingIn(d[i]) > 0}, 1))
        outlier_cols ==
            NamesOf(SelectIdx(d, {i \in NumericIdx(d) : ManyOutliers(d[i], NRows(d))}, 1))
        unbalanced == {i \in DOMAIN d : Imbalanced(d[i])}
    IN  (IF missing_cols # <<>>
         THEN <<[kind |-> "missing", cols |-> Take(missing_cols, NamedCols)]>>
         ELSE <<>>)
        \o (IF outlier_cols # <<>>
            THEN <<[kind |-> "outliers", cols |-> Take(outlier_cols, NamedCols)]>>
            ELSE <<>>)
        \o (IF Len(NumericCols(d)) >= 2 /\ HighCorrPairs(NumericCols(d)) # {}
            THEN <<[kind |-> "high_correlation"]>>
            ELSE <<>>)
        \o (IF unbalanced # {}
            THEN <<[kind |-> "imbalance",
                    col |-> d[CHOOSE i \in unbalanced : \A j \in unbalanced : i <= j].name]>>
            ELSE <<>>)

(***************************************************************************)
(* analyze_dataset.  The dict display of lines 63-76 evaluates the passes  *)
(* in order; the first pass that raises ends the call, and the passes      *)
(* after it (chart generation among them) do not run.                      *)
(***************************************************************************)
SectionNames == {"basic_info", "descriptive_stats", "missing_values", "data_types",
                 "correlations", "outliers", "distributions", "categorical_analysis",
                 "time_analysis", "charts", "insights", "recommendations"}

NoReport == [status |-> "none"]
Raised(pass, err) == [status |-> "raised", pass |-> pass, error |-> err]
Returned(sections) == [status |-> "returned", sections |-> sections]

\* mutant of FrameAfterPasses: the time pass converts in place, so a kept
\* candidate column is left as a datetime column
FrameAfterPasses_InPlace(d) ==
    [i \in DOMAIN d |->
        IF IsTimeName(d[i].name) /\ TimeColumnKept(d[i]) /\ ~IsDatetime(d[i])
        THEN Col(d[i].name, "datetime64[ns]",
                 [r \in DOMAIN d[i].vals |->
                     LET t == ToDatetime(d[i].vals[r])
                     IN  IF t.nat THEN NA ELSE Dat(t.d, t.f)])
        ELSE d[i]]

\* the frame after the time pass: lines 310-313 bind the converted series to
\* the local time_data, and no pass assigns into df
FrameAfterPasses(d) == d

\* the eleven passes that only read the table, in the order of lines 64-75
\* (chart generation, the tenth, comes between the time pass and the insights)
ReadPasses(d, scipy) ==
    IF DetectOutliersRaises(d) THEN Raised("outliers", "ZeroDivisionError")
    ELSE IF AnalyzeDistributionsRaises(d) THEN Raised("distributions", "ZeroDivisionError")
    ELSE Returned(
             [basic_info |-> GetBasicInfo(d),
              descriptive_stats |-> GetDescriptiveStats(d),
              missing_values |-> AnalyzeMissingValues(d),
              data_types |-> AnalyzeDataTypes(d),
              correlations |-> AnalyzeCorrelations(d),
              outliers |-> DetectOutliers(d, scipy),
              distributions |-> AnalyzeDistributions(d, scipy),
              categorical_analysis |-> AnalyzeCategorical(d),
              time_analysis |-> AnalyzeTimePatterns(d),
              insights |-> GenerateInsights(d),
              recommendations |-> GenerateRecommendations(d)])

\* analyze_dataset, given what the read passes produce on d: the report (or
\* the exception), the instance state and the frame it leaves
AnalyzeDataset(d, passes, plotly, fails, inst) ==
    IF passes.status = "raised"
    THEN [result |-> passes, inst |-> inst, frame |-> d]
    ELSE LET charts == GenerateCharts(d, plotly, fails, inst)
         IN  [result |-> Returned(
                             [x \in SectionNames |->
                                 IF x = "charts" THEN charts.chart_paths
                                 ELSE passes.sections[x]]),
              inst |-> charts.inst,
              frame |-> FrameAfterPasses(d)]

(***************************************************************************)
(* Column names used by the tables below.                                  *)
(***************************************************************************)
NameX == <<"x">>
NameCity == <<"c", "i", "t", "y">>
NameDate == <<"D", "a", "t", "e">>
NameWhen == <<"w", "h", "e", "n">>
NameUptime == <<"u", "p", "T", "I", "M", "E">>
NameIsDate == <<"i", "s", "_", "d", "a", "t", "e">>
NameStamp == <<"t", "i", "m", "e", "s", "t", "a", "m", "p">>
NameDatetime == <<"d", "a", "t", "e", "t", "i", "m", "e">>
NameEdit == <<"e", "d", "i", "t">>

Digits == <<"1", "2", "3", "4", "5", "6", "7", "8", "9">>
NameC(i) == <<"c", Digits[i]>>

NumCells(s) == [i \in DOMAIN s |-> IF s[i] < 0 THEN NA ELSE Num(s[i])]

\* the frame d with its first n rows only
HeadOf(d, n) == [i \in DOMAIN d |-> [d[i] EXCEPT !.vals = Take(@, n)]]

NonEmptySubseqs(pool) == {SelectIdx(pool, K, 1) : K \in (SUBSET DOMAIN pool) \ {{}}}

(***************************************************************************)
(* The tables of the instance protocol: the columns x (numbers, with an    *)
(* absent value and an outlier), timestamp (whole numbers) and city (text, *)
(* with an absent value), in every non-empty combination, with their five  *)
(* rows or with none.                                                      *)
(***************************************************************************)
ProtocolPool ==
    <<Col(NameX, "float64", NumCells(<<2, 3, -1, 4, 10>>)),
      Col(NameStamp, "int64", NumCells(<<1, 2, 3, 4, 5>>)),
      Col(NameCity, "object", <<Txt(1), Txt(2), Txt(1), Txt(1), NA>>)>>

ProtocolTables ==
    NonEmptySubseqs(ProtocolPool) \cup {HeadOf(d, 0) : d \in NonEmptySubseqs(ProtocolPool)}

(***************************************************************************)
(* The state machine.                                                      *)
(***************************************************************************)
InitWith(tables, plotly, scipy) ==
    /\ HAS_PLOTLY \in plotly
    /\ HAS_SCIPY \in scipy
    /\ chart_counter = 0
    /\ files = {}
    /\ df \in tables
    /\ report = NoReport
    /\ calls = 0
    /\ returned_total = 0
    /\ last_fails = {}
    /\ loaded = df
    /\ previous = NoReport

\* the charts a call attempts to build: those past the early returns, when
\* the read passes before chart generation have not raised
Attempted(d, plotly, passes) ==
    IF plotly /\ passes.status = "returned"
    THEN {k \in Range(ChartKinds) : ChartPrecondition(k, d)}
    ELSE {}

\* what one call analyze_dataset(d) may do, one outcome for each set of
\* attempted charts that fails during the call (none fails unless faulty)
Outcomes(d, plotly, scipy, faulty, inst) ==
    LET passes == ReadPasses(d, scipy)
        faults == IF faulty THEN SUBSET Attempted(d, plotly, passes) ELSE {{}}
    IN  {[fails |-> fails, out |-> AnalyzeDataset(d, passes, plotly, fails, inst)] :
            fails \in faults}

NonChart(r) ==
    IF r.status = "returned"
    THEN Returned([x \in SectionNames \ {"charts"} |-> r.sections[x]])
    ELSE r

\* one call analyze_dataset(df)
Analyze(faulty) ==
    \E o \in Outcomes(df, HAS_PLOTLY, HAS_SCIPY, faulty,
                      [chart_counter |-> chart_counter, files |-> files]) :
        /\ report' = o.out.result
        /\ chart_counter' = o.out.inst.chart_counter
        /\ files' = o.out.inst.files
        /\ df' = o.out.frame
        /\ calls' = calls + 1
        /\ returned_total' = returned_total +
               (IF o.out.result.status = "returned"
                THEN Len(o.out.result.sections.charts) ELSE 0)
        /\ last_fails' = o.fails
        /\ previous' = NonChart(report)
        /\ UNCHANGED <<HAS_PLOTLY, HAS_SCIPY, loaded>>

\* a call during which any of the attempted charts may fail
AnalyzeAny == calls < MaxCalls /\ Analyze(TRUE)

\* the single call of the specifications that check one pass: no chart fails
AnalyzeOnce == calls = 0 /\ Analyze(FALSE)

\* the caller loads another table and drops the reports of the old one
Reload ==
    /\ calls < MaxCalls
    /\ df' \in ProtocolTables \ {df}
    /\ loaded' = df'
    /\ report' = NoReport
    /\ previous' = NoReport
    /\ last_fails' = {}
    /\ UNCHANGED <<HAS_PLOTLY, HAS_SCIPY, chart_counter, files, calls, returned_total>>

Init == InitWith(ProtocolTables, BOOLEAN, BOOLEAN)

Next == AnalyzeAny \/ Reload

Spec == Init /\ [][Next]_vars

(***************************************************************************)
(* Specifications that check one pass on a wider family of tables: one     *)
(* table, one call.                                                        *)
(***************************************************************************)
\* one numeric column of OutlierRows cells, each absent or in 0..MaxVal
OutlierCells == {NA} \cup {Num(v) : v \in 0..MaxVal}

OutlierTables == {<<Col(NameX, "float64", vs)>> : vs \in [1..OutlierRows -> OutlierCells]}

\* the outlier pass reads HAS_SCIPY only
InitOutliers == InitWith(OutlierTables, {FALSE}, BOOLEAN)

NextOutliers == AnalyzeOnce

SpecOutliers == InitOutliers /\ [][NextOutliers]_vars

\* two to MaxNumCols numeric columns c1, c2, ..., each one of the vectors of
\* CorrPool (-1 stands for an absent value), in the pool's order or against it
CorrPool ==
    <<<<1, 2, 3, 4, 5>>, <<2, 1, 4, 3, 5>>, <<2, 5, 1, 4, 3>>,
      <<3, 3, 3, 3, 3>>, <<1, -1, 3, 5, 4>>, <<3, 1, 5, 2, 4>>>>

CorrChoices ==
    UNION {{f \in [1..k -> DOMAIN CorrPool] :
                \/ \A i \in 1..(k - 1) : f[i] <= f[i + 1]
                \/ \A i \in 1..(k - 1) : f[i] >= f[i + 1]} :
              k \in 2..MaxNumCols}

CorrTables ==
    {[i \in DOMAIN f |-> Col(NameC(i), "float64", NumCells(CorrPool[f[i]]))] : f \in CorrChoices}

\* the correlation pass and the recommendations read neither flag
InitCorr == InitWith(CorrTables, {FALSE}, {TRUE})

NextCorr == AnalyzeOnce

SpecCorr == InitCorr /\ [][NextCorr]_vars

\* a text column "Date" of TimeRows cells, each absent, no date, or a date
\* of day 0..MaxDay at 0 or 1 ns into the day, among sibling columns: a bool
\* column and a text column named as times, a datetime column named
\* otherwise, a number column and a datetime column named as times, and a
\* text column whose name holds neither word
TimeCells == {NA, Txt(1)} \cup {Dat(d, t) : d \in 0..MaxDay, t \in 0..1}

Siblings(n) ==
    <<Col(NameIsDate, "bool", [i \in 1..n |-> Bool(1)]),
      Col(NameWhen, "datetime64[ns]", [i \in 1..n |-> IF i = 1 THEN NA ELSE Dat(i, 0)]),
      Col(NameUptime, "object", [i \in 1..n |-> Txt(7)]),
      Col(NameStamp, "int64", [i \in 1..n |-> Num(i)]),
      Col(NameDatetime, "datetime64[ns]", [i \in 1..n |-> Dat(2 * i, n - i)]),
      Col(NameEdit, "object", [i \in 1..n |-> Txt(i)])>>

TimeTables ==
    LET L == Siblings(TimeRows)
    IN  {SubSeq(L, 1, a) \o <<Col(NameDate, "object", vs)>> \o SubSeq(L, a + 1, b) :
            vs \in [1..TimeRows -> TimeCells],
            a \in 0..Len(L), b \in {0, Len(L)}}

\* the time pass reads neither flag
InitTime == InitWith(TimeTables, {FALSE}, {TRUE})

NextTime == AnalyzeOnce

SpecTime == InitTime /\ [][NextTime]_vars

\* one text column "city": the values 1..k once each, k up to MaxDistinct,
\* then CatRows cells, each absent or one of the values 1 and 2.  The column
\* is of dtype object, or of dtype category with the values it holds as its
\* categories, or with categories of which one at least is held by no row
CatTailCells == {NA, Txt(1), Txt(2)}

FirstCats(n) == [i \in 1..n |-> Txt(i)]

ObservedCats(vals) ==
    SelectIdx(FirstCats(MaxDistinct + 2),
              {i \in 1..(MaxDistinct + 2) : Txt(i) \in Range(vals)}, 1)

CatColumns ==
    UNION {LET vals == FirstCats(k) \o tail
           IN  {Col(NameCity, "object", vals),
                CatCol(NameCity, ObservedCats(vals), vals),
                CatCol(NameCity, FirstCats(IF k < 2 THEN 3 ELSE k + 1), vals)} :
              k \in 0..MaxDistinct, tail \in [1..CatRows -> CatTailCells]}

CatTables == {<<c>> : c \in CatColumns}

\* the categorical pass reads neither flag
InitCat == InitWith(CatTables, {FALSE}, {TRUE})

NextCat == AnalyzeOnce

SpecCat == InitCat /\ [][NextCat]_vars

\* two numeric columns of DistRows rows: x, each cell absent, 0 or 1 (all
\* absent included), and its sibling timestamp, the whole numbers 1, 2, ...
DistCells == {NA, Num(0), Num(1)}

DistTables ==
    {<<Col(NameX, "float64", vs),
       Col(NameStamp, "int64", [i \in 1..DistRows |-> Num(i)])>> :
        vs \in [1..DistRows -> DistCells]}

\* the distribution pass reads HAS_SCIPY only
InitDist == InitWith(DistTables, {FALSE}, BOOLEAN)

NextDist == AnalyzeOnce

SpecDist == InitDist /\ [][NextDist]_vars

\* one numeric column x: k zeros, k up to MaxZeros, then one value of
\* 0..MaxVal, with no absent value or with one, first or last.  The last
\* value 1 after ten zeros or more has a z-score above 3
SpikeTables ==
    {<<Col(NameX, "float64", pre \o [i \in 1..k |-> Num(0)] \o <<Num(v)>> \o post)>> :
        k \in 0..MaxZeros, v \in 0..MaxVal,
        pre \in {<<>>, <<NA>>}, post \in {<<>>, <<NA>>}}

\* the outlier pass reads HAS_SCIPY only
InitZScore == InitWith(SpikeTables, {FALSE}, BOOLEAN)

NextZScore == AnalyzeOnce

SpecZScore == InitZScore /\ [][NextZScore]_vars

(***************************************************************************)
(* The claims.                                                             *)
(***************************************************************************)
Sections == report.sections

HasReturned == report.status = "returned"

\* the numeric columns of df, by declared type
NumericNames == {df[i].name : i \in {j \in DOMAIN df : df[j].dtype \in {"int64", "float64"}}}

ColumnNamed(nm) == df[CHOOSE i \in DOMAIN df : df[i].name = nm]

Kinds(msgs) == [i \in DOMAIN msgs |-> msgs[i].kind]

(* C1: for every table that has at least one column, zero-row tables and   *)
(* tables whose numeric columns hold no rows included, analyze_dataset     *)
(* returns (does not raise) a report with exactly the twelve sections.     *)
C1_ReturnsTwelveSections ==
    (Len(df) >= 1 /\ report.status # "none")
        => (HasReturned /\ DOMAIN Sections = SectionNames)

(* C2: with no numeric column, descriptive_stats and correlations are the  *)
(* mapping holding only 'message' and the call does not raise; with one    *)
(* numeric column, correlations is still that placeholder and              *)
(* descriptive_stats holds the statistics; with two or more, correlations  *)
(* is never the placeholder.                                               *)
C2_Placeholders ==
    LET n == Cardinality(NumericNames)
    IN  /\ (n = 0 /\ report.status # "none") => HasReturned
        /\ HasReturned =>
              /\ n = 0 => /\ DOMAIN Sections.descriptive_stats = {"message"}
                          /\ DOMAIN Sections.correlations = {"message"}
              /\ n = 1 => /\ DOMAIN Sections.correlations = {"message"}
                          /\ DOMAIN Sections.descriptive_stats =
                                 {"numeric_summary", "skewness", "kurtosis", "variance"}
                          /\ DOMAIN Sections.descriptive_stats.numeric_summary = NumericNames
              /\ n >= 2 => "message" \notin DOMAIN Sections.correlations

C2_Witness ==
    /\ HasReturned
    /\ Cardinality(NumericNames) = 1
    /\ DOMAIN Sections.correlations = {"message"}
    /\ "message" \notin DOMAIN Sections.descriptive_stats

(* C5: total_missing is the sum of the per-column missing counts and       *)
(* columns_with_missing holds exactly the columns whose count is positive; *)
(* the insights hold exactly one of the two missing-value messages, the    *)
(* 'no missing values' one when total_missing is 0 and the count one       *)
(* otherwise; the missing-value recommendation is there exactly when       *)
(* columns_with_missing is not empty.                                      *)
C5_MissingValues ==
    HasReturned =>
        LET mv == Sections.missing_values
            names == {df[i].name : i \in DOMAIN df}
            ins == Kinds(Sections.insights)
            recs == Kinds(Sections.recommendations)
            nNone == Cardinality({i \in DOMAIN ins : ins[i] = "no_missing"})
            nSome == Cardinality({i \in DOMAIN ins : ins[i] = "missing"})
        IN  /\ DOMAIN mv.missing_count = names
            /\ \A nm \in names :
                  mv.missing_count[nm] =
                      Cardinality({r \in DOMAIN ColumnNamed(nm).vals :
                                      ColumnNamed(nm).vals[r].k = "na"})
            /\ mv.total_missing =
                   SumSeq([i \in DOMAIN df |-> mv.missing_count[df[i].name]])
            /\ Range(mv.columns_with_missing) = {nm \in names : mv.missing_count[nm] > 0}
            /\ nNone + nSome = 1
            /\ (nNone = 1) <=> (mv.total_missing = 0)
            /\ \A i \in DOMAIN ins :
                  ins[i] = "missing" => Sections.insights[i].total = mv.total_missing
            /\ ("missing" \in Range(recs)) <=> (mv.columns_with_missing # <<>>)

C5_Witness ==
    /\ HasReturned
    /\ Sections.missing_values.total_missing = 1
    /\ Len(df) = 2
    /\ "missing" \in Range(Kinds(Sections.insights))
    /\ "missing" \in Range(Kinds(Sections.recommendations))

(* C6: after any sequence of calls on one instance, chart_counter is the   *)
(* number of chart paths the calls returned in their 'charts' lists, and   *)
(* every returned path is a file written; without the charting capability  *)
(* every call returns an empty list, writes no file and leaves the counter *)
(* at 0.                                                                   *)
C6_CounterCountsReturnedCharts ==
    /\ chart_counter = returned_total
    /\ HasReturned => Range(Sections.charts) \subseteq files
    /\ ~HAS_PLOTLY =>
          /\ chart_counter = 0
          /\ files = {}
          /\ HasReturned => Sections.charts = <<>>

C6_Witness ==
    /\ calls = 2
    /\ HasReturned
    /\ last_fails # {}
    /\ Sections.charts # <<>>
    /\ chart_counter > Len(Sections.charts)

(* C7: the five charts are attempted in the fixed order and independently: *)
(* whichever of them fail, the path of every other chart whose             *)
(* precondition holds is in the result, in the fixed order, and no         *)
(* exception leaves chart generation.                                      *)
C7_ChartsIndependent ==
    /\ report.status = "raised" => report.pass \in {"outliers", "distributions"}
    /\ (HasReturned /\ HAS_PLOTLY) =>
          LET charts == Sections.charts
              pos(k) == CHOOSE i \in DOMAIN ChartKinds : ChartKinds[i] = k
          IN  /\ \A k \in Range(ChartKinds) :
                    (k \in Range(charts)) <=> (ChartPrecondition(k, df) /\ k \notin last_fails)
              /\ \A i, j \in DOMAIN charts : i < j => pos(charts[i]) < pos(charts[j])

C7_Witness ==
    /\ HasReturned
    /\ last_fails = {"correlation_heatmap", "boxplots"}
    /\ Sections.charts = <<"distributions", "missing_values", "categorical_distribution">>

C3_StrongCorrelations ==
    (HasReturned /\ Cardinality(NumericNames) >= 2) =>
        LET co == Sections.correlations
            sc == co.strong_correlations
            m == co.correlation_matrix
            key(p) == {p.var1, p.var2}
            listed == {key(sc[i]) : i \in DOMAIN sc}
            significant == {pr \in NumericNames \X NumericNames :
                               pr[1] # pr[2] /\ AbsGreater(m[pr], 1, 10)}
        IN  /\ \A i \in DOMAIN sc :
                  /\ sc[i].var1 \in NumericNames
                  /\ sc[i].var2 \in NumericNames
                  /\ sc[i].var1 # sc[i].var2
                  /\ sc[i].correlation = m[<<sc[i].var1, sc[i].var2>>]
                  /\ AbsGreater(sc[i].correlation, 1, 10)
            /\ \A i, j \in DOMAIN sc : i # j => key(sc[i]) # key(sc[j])
            /\ \A i, j \in DOMAIN sc :
                  i < j => ~AbsLess(sc[i].correlation, sc[j].correlation)
            /\ Len(sc) <= 10
            /\ \A pr \in significant :
                  {pr[1], pr[2]} \notin listed =>
                      \A i \in DOMAIN sc : ~AbsLess(sc[i].correlation, m[pr])
            /\ sc # <<>> => co.highest_correlation = sc[1]
            /\ (co.highest_correlation = NoPair) <=> (significant = {})

C3_Witness ==
    /\ HasReturned
    /\ LET co == Sections.correlations
           sc == co.strong_correlations
       IN  /\ Len(sc) = 10
           /\ AbsLess(sc[10].correlation, sc[1].correlation)
           /\ \E i \in 1..9 : ~AbsLess(sc[i + 1].correlation, sc[i].correlation)
           /\ \E pr \in NumericNames \X NumericNames :
                 /\ pr[1] # pr[2]
                 /\ AbsGreater(co.correlation_matrix[pr], 1, 10)
                 /\ \A i \in DOMAIN sc : {pr[1], pr[2]} # {sc[i].var1, sc[i].var2}
           /\ co.highest_correlation = sc[1]

(* C4: for every numeric column the outliers entry has lower_bound =       *)
(* Q1 - 1.5*(Q3-Q1) and upper_bound = Q3 + 1.5*(Q3-Q1); iqr_outliers_count *)
(* is the number of rows whose value is strictly below lower_bound or      *)
(* strictly above upper_bound, so that a value equal to a bound and an     *)
(* absent value are not counted; iqr_outliers_percent is the count over    *)
(* the number of rows, absent ones included, times 100.                    *)
C4_IqrOutliers ==
    HasReturned =>
        /\ DOMAIN Sections.outliers = NumericNames
        /\ \A nm \in NumericNames :
              LET o == Sections.outliers[nm]
                  vals == ColumnNamed(nm).vals
                  Q1 == Sections.descriptive_stats.numeric_summary[nm].q25
                  Q3 == Sections.descriptive_stats.numeric_summary[nm].q75
                  lo == o.lower_bound
                  hi == o.upper_bound
                  outside == {r \in DOMAIN vals :
                                 /\ vals[r].k = "num"
                                 /\ \/ vals[r].v * lo.den < lo.num
                                    \/ vals[r].v * hi.den > hi.num}
              IN  /\ ~Q1.nan /\ ~Q3.nan /\ ~lo.nan /\ ~hi.nan
                  /\ Q1.den = 4 /\ Q3.den = 4
                  \* 8 * bound = 2 * (4*Q1) -/+ 3 * (4*Q3 - 4*Q1)
                  /\ 8 * lo.num = lo.den * (2 * Q1.num - 3 * (Q3.num - Q1.num))
                  /\ 8 * hi.num = hi.den * (2 * Q3.num + 3 * (Q3.num - Q1.num))
                  /\ o.iqr_outliers_count = Cardinality(outside)
                  /\ \A r \in DOMAIN vals :
                        (vals[r].k = "na"
                           \/ (vals[r].k = "num"
                                 /\ (vals[r].v * lo.den = lo.num \/ vals[r].v * hi.den = hi.num)))
                            => r \notin outside
                  /\ ~o.iqr_outliers_percent.nan
                  /\ o.iqr_outliers_percent.num * Len(vals) =
                         100 * o.iqr_outliers_count * o.iqr_outliers_percent.den

C4_Witness ==
    /\ HasReturned
    /\ \E nm \in NumericNames :
          LET o == Sections.outliers[nm]
              vals == ColumnNamed(nm).vals
          IN  /\ o.iqr_outliers_count = 1
              /\ \E r \in DOMAIN vals : vals[r].k = "na"
              /\ \E r \in DOMAIN vals :
                    vals[r].k = "num" /\ vals[r].v * o.upper_bound.den < o.upper_bound.num
              /\ o.iqr_outliers_percent.num * Len(vals) = 100 * o.iqr_outliers_percent.den

(* C9: the keys of time_analysis are exactly the candidate columns (of     *)
(* declared timestamp type, or with a name that holds 'time' or 'date'     *)
(* whatever the case) with at least one value that parses as a timestamp;  *)
(* a candidate with no such value, or whose parsing raises, is left out    *)
(* and the later candidates are still examined; for each key, min_date and *)
(* max_date are the least and greatest parsed values, date_range_days is   *)
(* the number of whole days between them and missing_dates is the number   *)
(* of rows that are absent or do not parse.                                *)
C9_TimeAnalysis ==
    HasReturned =>
        LET ta == Sections.time_analysis
            Parses(cell) == cell.k \in {"date", "num"}
            Parsed(cell) == IF cell.k = "date" THEN Stamp(cell.v, cell.f) ELSE Stamp(0, cell.v)
            Candidate(c) == c.dtype = "datetime64[ns]" \/ IsTimeName(c.name)
            ParsingRaises(c) == c.dtype = "bool"
            keys == {df[i].name : i \in {j \in DOMAIN df :
                        /\ Candidate(df[j])
                        /\ ~ParsingRaises(df[j])
                        /\ \E r \in DOMAIN df[j].vals : Parses(df[j].vals[r])}}
        IN  /\ DOMAIN ta = keys
            /\ \A nm \in DOMAIN ta :
                  LET vals == ColumnNamed(nm).vals
                      stamps == {Parsed(vals[r]) : r \in {q \in DOMAIN vals : Parses(vals[q])}}
                      lo == ta[nm].min_date
                      hi == ta[nm].max_date
                      days == ta[nm].date_range_days
                  IN  /\ lo \in stamps /\ \A t \in stamps : StampLE(lo, t)
                      /\ hi \in stamps /\ \A t \in stamps : StampLE(t, hi)
                      /\ days >= 0
                      \* lo + days <= hi < lo + days + 1, in days
                      /\ StampLE(Stamp(lo.d + days, lo.f), hi)
                      /\ ~StampLE(Stamp(lo.d + days + 1, lo.f), hi)
                      /\ ta[nm].missing_dates =
                             Cardinality({r \in DOMAIN vals : ~Parses(vals[r])})

C9_Witness ==
    /\ HasReturned
    /\ Len(df) > 1
    /\ df[1].name = NameIsDate
    /\ \E i \in DOMAIN df : df[i].name = NameUptime
    /\ LET ta == Sections.time_analysis
       IN  /\ DOMAIN ta = {NameDate, NameWhen, NameStamp, NameDatetime}
           /\ ta[NameDate].max_date.d = ta[NameDate].min_date.d + 1
           /\ ta[NameDate].date_range_days = 0
           /\ ta[NameDate].missing_dates = 0
           /\ ta[NameWhen].missing_dates = 1

\* the label fixed by the thresholds 0.7 / 0.5 / 0.3 / 0.1 on abs(r), r kept
\* as its signed square num/den
LabelByThresholds(r) ==
    LET a == Abs(r.num)
    IN  IF 100 * a >= 49 * r.den THEN "Muito Forte"
        ELSE IF 100 * a >= 25 * r.den THEN "Forte"
        ELSE IF 100 * a >= 9 * r.den THEN "Moderada"
        ELSE IF 100 * a >= r.den THEN "Fraca"
        ELSE "Muito Fraca"

(* C10: with two or more numeric columns, the high-correlation             *)
(* recommendation is listed exactly when some pair of distinct numeric     *)
(* columns has an absolute correlation strictly above 0.8, and once at     *)
(* most; when it is listed, highest_correlation is not null and its label  *)
(* is 'Muito Forte'; the label of every listed pair is the one the         *)
(* thresholds 0.7 / 0.5 / 0.3 / 0.1 give, and is never 'Muito Fraca'.      *)
C10_HighCorrelation ==
    (HasReturned /\ Cardinality(NumericNames) >= 2) =>
        LET co == Sections.correlations
            sc == co.strong_correlations
            recs == Kinds(Sections.recommendations)
            high == {pr \in NumericNames \X NumericNames :
                        pr[1] # pr[2] /\ AbsGreater(co.correlation_matrix[pr], 8, 10)}
            n == Cardinality({i \in DOMAIN recs : recs[i] = "high_correlation"})
        IN  /\ (n >= 1) <=> (high # {})
            /\ n <= 1
            /\ n = 1 => /\ co.highest_correlation # NoPair
                        /\ co.highest_correlation.strength = "Muito Forte"
            /\ \A i \in DOMAIN sc :
                  /\ sc[i].strength = LabelByThresholds(sc[i].correlation)
                  /\ sc[i].strength # "Muito Fraca"

C10_Witness ==
    /\ HasReturned
    /\ LET co == Sections.correlations
           sc == co.strong_correlations
       IN  /\ "high_correlation" \in Range(Kinds(Sections.recommendations))
           /\ Cardinality({pr \in NumericNames \X NumericNames :
                              pr[1] # pr[2] /\ AbsGreater(co.correlation_matrix[pr], 8, 10)}) >= 4
           /\ \E i \in DOMAIN sc : sc[i].strength = "Fraca"
           /\ \E i \in DOMAIN sc : sc[i].strength = "Forte"
           /\ co.highest_correlation.strength = "Muito Forte"

\* the text columns of df, by declared type
CategoricalNames ==
    {df[i].name : i \in {j \in DOMAIN df : df[j].dtype \in {"object", "category"}}}

(* C11: for every categorical/text column, most_frequent_count is at least *)
(* least_frequent_count, the value_counts table has at most 10 entries and *)
(* at most unique_count entries, most_frequent_count is the largest count  *)
(* of the table, and the counts of the table plus missing_count do not     *)
(* exceed the number of rows; for a column whose values are all absent,    *)
(* most_frequent and least_frequent are null, both counts are 0 and        *)
(* value_counts is empty.                                                  *)
C11_CategoricalSummary ==
    HasReturned =>
        /\ DOMAIN Sections.categorical_analysis = CategoricalNames
        /\ \A nm \in CategoricalNames :
              LET info == Sections.categorical_analysis[nm]
                  vals == ColumnNamed(nm).vals
                  vc == info.value_counts
              IN  /\ info.most_frequent_count >= info.least_frequent_count
                  /\ Len(vc) <= 10
                  /\ Len(vc) <= info.unique_count
                  /\ \A i \in DOMAIN vc : vc[i].count <= info.most_frequent_count
                  /\ vc # <<>> => \E i \in DOMAIN vc : vc[i].count = info.most_frequent_count
                  /\ SumSeq([i \in DOMAIN vc |-> vc[i].count]) + info.missing_count <= Len(vals)
                  /\ (\A r \in DOMAIN vals : vals[r].k = "na") =>
                        /\ info.most_frequent = NoneVal
                        /\ info.least_frequent = NoneVal
                        /\ info.most_frequent_count = 0
                        /\ info.least_frequent_count = 0
                        /\ vc = <<>>

(* C12: distribution analysis produces one entry for every numeric column, *)
(* a column whose values are all absent included: for such a column the    *)
(* pass does not raise and the entry's mode is null, and the entries of    *)
(* the sibling numeric columns are there with their statistics computed    *)
(* over their non-absent values only.                                      *)
C12_DistributionsEveryColumn ==
    /\ ~(report.status = "raised" /\ report.pass = "distributions")
    /\ HasReturned =>
          /\ DOMAIN Sections.distributions = NumericNames
          /\ \A nm \in NumericNames :
                LET e == Sections.distributions[nm]
                    vals == ColumnNamed(nm).vals
                    rows == {r \in DOMAIN vals : vals[r].k = "num"}
                    present == {vals[r].v : r \in rows}
                    sum == SumSeq([r \in DOMAIN vals |-> IF r \in rows THEN vals[r].v ELSE 0])
                IN  /\ rows = {} => e.mode = NoneVal
                    /\ rows # {} =>
                          /\ ~e.mean.nan
                          /\ e.mean.num * Cardinality(rows) = e.mean.den * sum
                          /\ ~e.min.nan /\ ~e.max.nan
                          /\ e.min.num \in {e.min.den * v : v \in present}
                          /\ \A v \in present : e.min.num <= e.min.den * v
                          /\ e.max.num \in {e.max.den * v : v \in present}
                          /\ \A v \in present : e.max.num >= e.max.den * v
                          /\ e.unique_values = Cardinality(present)
                          /\ e.mode # NoneVal
                          /\ e.mode.v \in present

(* C13: in outlier detection, with the advanced-statistics capability      *)
(* z_outliers_count of every numeric column is the number of rows whose    *)
(* non-absent value has an absolute z-score, over the column's non-absent  *)
(* values, strictly above 3, also when the column has absent values;       *)
(* without the capability z_outliers_count and z_outliers_percent are 0;   *)
(* in both cases the pass does not raise and the IQR fields of the column  *)
(* are what they are without the z-score step.                             *)
C13_ZScoreOutliers ==
    /\ ~(report.status = "raised" /\ report.pass = "outliers")
    /\ HasReturned =>
          /\ DOMAIN Sections.outliers = NumericNames
          /\ \A nm \in NumericNames :
                LET o == Sections.outliers[nm]
                    c == ColumnNamed(nm)
                    vals == c.vals
                    rows == {r \in DOMAIN vals : vals[r].k = "num"}
                    n == Cardinality(rows)
                    S == SumSeq([r \in DOMAIN vals |-> IF r \in rows THEN vals[r].v ELSE 0])
                    dev(r) == n * vals[r].v - S
                    M2 == SumSeq([r \in DOMAIN vals |-> IF r \in rows THEN dev(r) * dev(r) ELSE 0])
                    \* abs(z) > 3, z = (x - S/n) / sqrt(M2 / n^3)
                    far == {r \in rows : n * dev(r) * dev(r) > 9 * M2}
                IN  /\ HAS_SCIPY => o.z_outliers_count = Cardinality(far)
                    /\ ~HAS_SCIPY => /\ o.z_outliers_count = 0
                                     /\ ~o.z_outliers_percent.nan
                                     /\ o.z_outliers_percent.num = 0
                    /\ o.lower_bound = LowerBound(c)
                    /\ o.upper_bound = UpperBound(c)
                    /\ o.iqr_outliers_count = Cardinality(IqrOutlierRows(c))

====
